---------------------------- MODULE Spec2Model ----------------------------
(***************************************************************************)
(* State-machine model of the two parallel scan engines of the repository: *)
(*   src/src/v15.rs  static sharding (one thread per file segment)         *)
(*   src/src/v16.rs  pipelined (one reader, several workers, buffer pools) *)
(* and of the scanning / parsing / table code the two files share.         *)
(*                                                                         *)
(* Bytes are their ASCII codes.  Offsets are 0-based as in the source; a   *)
(* slice buf[a..b] is SubSeq(buf, a+1, b).  Option<T> is a sequence of     *)
(* length 0 (None) or 1 (Some).                                            *)
(***************************************************************************)
EXTENDS Integers, Sequences, FiniteSets, TLC

\* ------------------------------------------------------------------ bytes

NL == 10
SEMI == 59
MINUS == 45
DOT == 46
ZERO == 48
NINE == 57

None == <<>>
Some(x) == <<x>>
is_some(o) == o # <<>>
is_none(o) == o = <<>>
unwrap(o) == o[1]

\* The outcome of code that can panic (an unwrap of None or Err, an index out
\* of bounds): the value it returns, or the panic.
Ok(x) == [ok |-> TRUE, val |-> x]
Panic == [ok |-> FALSE]

SetMin(S) == CHOOSE x \in S : \A y \in S : x <= y
SetMax(S) == CHOOSE x \in S : \A y \in S : x >= y
Min2(a, b) == IF a <= b THEN a ELSE b
Max2(a, b) == IF a >= b THEN a ELSE b

\* buf[a..b]
Slice(buf, a, b) == SubSeq(buf, a + 1, b)
\* buf[a..]
SliceFrom(buf, a) == SubSeq(buf, a + 1, Len(buf))

\* ------------------------------------------------------- delimiter scanner

LANE == 16
FAST_PATH_LEN == 48

\* v16.rs:202-210: index of the lowest set bit of the equality mask of one
\* 16-byte lane, None when the mask is 0.
first_match_in_u8x16(v, target) ==
    LET bits == {i \in 0 .. LANE - 1 : v[i + 1] = target}
    IN  IF bits = {} THEN None ELSE Some(SetMin(bits))

\* memchr crate: offset of the first occurrence of target in the whole slice.
memchr(target, buf) ==
    LET hits == {i \in 0 .. Len(buf) - 1 : buf[i + 1] = target}
    IN  IF hits = {} THEN None ELSE Some(SetMin(hits))

\* v16.rs:181-199 (identical to v15.rs:124-142).
find_char(buf, target) ==
    IF Len(buf) >= FAST_PATH_LEN
    THEN LET first == first_match_in_u8x16(Slice(buf, 0, LANE), target)
             second == first_match_in_u8x16(Slice(buf, LANE, 2 * LANE), target)
             third == first_match_in_u8x16(Slice(buf, 2 * LANE, FAST_PATH_LEN), target)
         IN  IF is_some(first) THEN Some(unwrap(first))
             ELSE IF is_some(second) THEN Some(LANE + unwrap(second))
             ELSE IF is_some(third) THEN Some(2 * LANE + unwrap(third))
             ELSE None
    ELSE memchr(target, buf)

\* ------------------------------------------------------ temperature parser

is_ascii_digit(c) == c >= ZERO /\ c <= NINE

RECURSIVE parse_digits(_, _, _)
\* the for loop of parse_temp, from element i (1-based) with accumulator temp
parse_digits(line, i, temp) ==
    IF i > Len(line) THEN temp
    ELSE IF is_ascii_digit(line[i])
         THEN parse_digits(line, i + 1, temp * 10 + (line[i] - ZERO))
         ELSE parse_digits(line, i + 1, temp)

\* a parser that never negates
parse_temp_unsigned(line) ==
    IF Len(line) = 0 THEN Panic ELSE Ok(parse_digits(line, 1, 0))

\* v16.rs:213-225.  line[0] of an empty slice is an index out of bounds.
parse_temp(line) ==
    IF Len(line) = 0 THEN Panic
    ELSE LET temp == parse_digits(line, 1, 0)
         IN  IF line[1] = MINUS THEN Ok(temp * (-1)) ELSE Ok(temp)

\* ------------------------------------------------------------ fingerprint

\* A u64 is its eight little-endian bytes.
U64_BYTES == 8
BYTE == 256

RECURSIVE BitXor(_, _)
BitXor(a, b) ==
    IF a = 0 /\ b = 0 THEN 0
    ELSE ((a + b) % 2) + 2 * BitXor(a \div 2, b \div 2)

Limb(x, k) == IF k >= 1 /\ k <= U64_BYTES THEN x[k] ELSE 0

\* x >> s
Shr64(x, s) ==
    LET q == s \div 8
        r == s % 8
    IN  [k \in 1 .. U64_BYTES |->
            ((Limb(x, k + q) \div (2 ^ r)) + Limb(x, k + q + 1) * (2 ^ (8 - r))) % BYTE]

Xor64(x, y) == [k \in 1 .. U64_BYTES |-> BitXor(x[k], y[k])]

RECURSIVE MulColumn(_, _, _, _)
\* sum of x[i] * y[k + 1 - i] for i in 1..i
MulColumn(x, y, k, i) ==
    IF i = 0 THEN 0 ELSE x[i] * y[k + 1 - i] + MulColumn(x, y, k, i - 1)

RECURSIVE MulLimbs(_, _, _, _)
MulLimbs(x, y, k, carry) ==
    IF k > U64_BYTES THEN <<>>
    ELSE LET s == carry + MulColumn(x, y, k, k)
         IN  <<s % BYTE>> \o MulLimbs(x, y, k + 1, s \div BYTE)

\* u64::wrapping_mul
wrapping_mul(x, y) == MulLimbs(x, y, 1, 0)

\* 0xbf58476d1ce4e5b9 and 0x94d049bb133111eb, little-endian
MIX_C1 == <<185, 229, 228, 28, 109, 71, 88, 191>>
MIX_C2 == <<235, 17, 49, 19, 187, 73, 208, 148>>

\* v16.rs:327-334
mix64(x0) ==
    LET x1 == Xor64(x0, Shr64(x0, 30))
        x2 == wrapping_mul(x1, MIX_C1)
        x3 == Xor64(x2, Shr64(x2, 27))
        x4 == wrapping_mul(x3, MIX_C2)
    IN  Xor64(x4, Shr64(x4, 31))

\* a fingerprint that reads 0 where the name has no byte
get_u64_key_padded(bytes) ==
    LET n == Len(bytes)
        at(i) == IF i >= 1 /\ i <= n THEN bytes[i] ELSE 0
    IN  Ok(<<at(1), at(2), at(3), at(n - 2), at(n - 1), at(n), n % BYTE, 0>>)

\* v16.rs:312-325.  The array literal is evaluated left to right, so a name
\* shorter than three bytes fails at bytes[1] or bytes[2].
get_u64_key(bytes) ==
    IF Len(bytes) < 3 THEN Panic
    ELSE LET n == Len(bytes)
         IN  Ok(<<bytes[1], bytes[2], bytes[3],
                  bytes[n - 2], bytes[n - 1], bytes[n],
                  n % BYTE, 0>>)

TABLE_SIZE == 32768

\* v16.rs:305-307: the bucket index of key
bucket_index(key) ==
    LET u64_key == get_u64_key(key)
    IN  IF ~u64_key.ok THEN Panic
        ELSE LET hashed_key == mix64(u64_key.val)
             IN  Ok((hashed_key[1] + BYTE * hashed_key[2]) % TABLE_SIZE)

\* ----------------------------------------------------------- StationData

I32_MAX == 2147483647
I32_MIN == -2147483647 - 1

\* i32 addition exceeds the range of i32
i32_overflows(a, b) ==
    \/ b > 0 /\ a > I32_MAX - b
    \/ b < 0 /\ a < I32_MIN - b

\* a + b on i32 in a build without overflow checks: the sum modulo 2^32.  (A
\* build with overflow checks panics instead, see Call_add_temp.)
i32_add(a, b) ==
    IF b > 0 /\ a > I32_MAX - b THEN (a - I32_MAX - 1) + (b - I32_MAX - 1)
    ELSE IF b < 0 /\ a < I32_MIN - b THEN (a + I32_MAX + 1) + (b + I32_MAX + 1)
    ELSE a + b

\* v16.rs:254-262
StationData_new ==
    [min_temp |-> I32_MAX, max_temp |-> I32_MIN, total |-> 0, count |-> 0,
     name |-> None]

\* an add_temp that takes the name of every record it absorbs
add_temp_renaming(self, temp, name) ==
    [min_temp |-> Min2(self.min_temp, temp),
     max_temp |-> Max2(self.max_temp, temp),
     total |-> i32_add(self.total, temp),
     count |-> self.count + 1,
     name |-> Some(name)]

\* an add_temp that takes the greater value for min and the lesser for max
add_temp_swapped(self, temp, name) ==
    [min_temp |-> Max2(self.min_temp, temp),
     max_temp |-> Min2(self.max_temp, temp),
     total |-> i32_add(self.total, temp),
     count |-> self.count + 1,
     name |-> IF is_none(self.name) THEN Some(name) ELSE self.name]

\* v16.rs:264-272
add_temp(self, temp, name) ==
    [min_temp |-> Min2(self.min_temp, temp),
     max_temp |-> Max2(self.max_temp, temp),
     total |-> i32_add(self.total, temp),
     count |-> self.count + 1,
     name |-> IF is_none(self.name) THEN Some(name) ELSE self.name]

\* a merge_with that never takes the name of the other record
merge_with_nameless(self, other) ==
    [min_temp |-> Min2(self.min_temp, other.min_temp),
     max_temp |-> Max2(self.max_temp, other.max_temp),
     total |-> i32_add(self.total, other.total),
     count |-> self.count + other.count,
     name |-> self.name]

\* v16.rs:274-282
merge_with(self, other) ==
    [min_temp |-> Min2(self.min_temp, other.min_temp),
     max_temp |-> Max2(self.max_temp, other.max_temp),
     total |-> i32_add(self.total, other.total),
     count |-> self.count + other.count,
     name |-> IF is_none(self.name) THEN other.name ELSE self.name]

\* --------------------------------------------------------- CustomHashMap
\* backing is a vector of TABLE_SIZE records.  It is stored as the function
\* from the indices that hold a record different from StationData::new() to
\* that record; Backing reads any index of the vector.

\* v16.rs:298-302
CustomHashMap_new == <<>>

Backing(map, i) == IF i \in DOMAIN map THEN map[i] ELSE StationData_new

SetBacking(map, i, rec) ==
    [j \in (DOMAIN map) \cup {i} |-> IF j = i THEN rec ELSE map[j]]

\* -------------------------------------------------------------------- f32
\* An f32 is [neg, m, e]: the value (-1)^neg * m * 2^e with 2^23 <= m < 2^24,
\* or m = 0.  Every operation rounds to nearest, ties to even (IEEE 754).
\* Exponent overflow and subnormals do not occur for the values of a table.

F32_BITS == 24
LIMB_BITS == F32_BITS \div 2

RECURSIVE BitLen(_)
BitLen(n) == IF n = 0 THEN 0 ELSE 1 + BitLen(n \div 2)

\* m * 2^e, plus a non-zero fraction of its last place when sticky, rounded
RoundF32(neg, m, e, sticky) ==
    IF m = 0 THEN [neg |-> neg, m |-> 0, e |-> 0]
    ELSE LET bl == BitLen(m)
         IN  IF bl <= F32_BITS
             THEN [neg |-> neg, m |-> m * 2 ^ (F32_BITS - bl), e |-> e - (F32_BITS - bl)]
             ELSE LET s == bl - F32_BITS
                      q == m \div 2 ^ s
                      r == m % 2 ^ s
                      half == 2 ^ (s - 1)
                      up == r > half \/ (r = half /\ (sticky \/ q % 2 = 1))
                      q1 == IF up THEN q + 1 ELSE q
                  IN  IF q1 = 2 ^ F32_BITS
                      THEN [neg |-> neg, m |-> 2 ^ (F32_BITS - 1), e |-> e + s + 1]
                      ELSE [neg |-> neg, m |-> q1, e |-> e + s]

\* `x as f32` for an i32 x
i32_as_f32(x) ==
    IF x = I32_MIN THEN [neg |-> TRUE, m |-> 2 ^ (F32_BITS - 1), e |-> 8]
    ELSE RoundF32(x < 0, IF x < 0 THEN -x ELSE x, 0, FALSE)

\* 0.1_f32 = 0x3DCCCCCD = 13421773 * 2^-27
F32_TENTH == [neg |-> FALSE, m |-> 13421773, e |-> -27]

\* a * b: the 48-bit product of the mantissas in 12-bit limbs
f32_mul(a, b) ==
    IF a.m = 0 \/ b.m = 0 THEN [neg |-> a.neg # b.neg, m |-> 0, e |-> 0]
    ELSE LET base == 2 ^ LIMB_BITS
             a1 == a.m \div base
             a0 == a.m % base
             b1 == b.m \div base
             b0 == b.m % base
             c0 == a0 * b0
             c1 == a1 * b0 + a0 * b1 + c0 \div base
             hi == a1 * b1 + c1 \div base
             lo == (c1 % base) * base + (c0 % base)
             \* the product is hi * 2^24 + lo, 2^22 <= hi < 2^24, lo < 2^24
             wide == hi >= 2 ^ (F32_BITS - 1)
             q == IF wide THEN hi ELSE 2 * hi + lo \div 2 ^ (F32_BITS - 1)
             r == IF wide THEN lo ELSE lo % 2 ^ (F32_BITS - 1)
             half == IF wide THEN 2 ^ (F32_BITS - 1) ELSE 2 ^ (F32_BITS - 2)
             up == r > half \/ (r = half /\ q % 2 = 1)
             q1 == IF up THEN q + 1 ELSE q
             e == a.e + b.e + (IF wide THEN F32_BITS ELSE F32_BITS - 1)
         IN  IF q1 = 2 ^ F32_BITS
             THEN [neg |-> a.neg # b.neg, m |-> 2 ^ (F32_BITS - 1), e |-> e + 1]
             ELSE [neg |-> a.neg # b.neg, m |-> q1, e |-> e]

RECURSIVE DivBits(_, _, _, _)
\* long division: quotient bits until the quotient has F32_BITS + 2 of them
DivBits(q, rem, d, k) ==
    IF BitLen(q) >= F32_BITS + 2 THEN [q |-> q, rem |-> rem, k |-> k]
    ELSE IF 2 * rem >= d
         THEN DivBits(2 * q + 1, 2 * rem - d, d, k + 1)
         ELSE DivBits(2 * q, 2 * rem, d, k + 1)

\* a / b, b # 0
f32_div(a, b) ==
    IF a.m = 0 THEN [neg |-> a.neg # b.neg, m |-> 0, e |-> 0]
    ELSE LET w == DivBits(a.m \div b.m, a.m % b.m, b.m, 0)
         IN  RoundF32(a.neg # b.neg, w.q, a.e - b.e - w.k, w.rem # 0)

RECURSIVE Digits(_)
\* the decimal digits of a natural number
Digits(n) == IF n < 10 THEN <<ZERO + n>> ELSE Digits(n \div 10) \o <<ZERO + (n % 10)>>

\* format!("{:.1}", v): the exact value of v rounded to one fractional digit,
\* ties to even; the sign of a negative v is kept when it rounds to zero.
fmt_f32_1(v) ==
    LET n == v.m * 10
        d == -v.e
        tenths == IF v.m = 0 THEN 0
                  ELSE IF d <= 0 THEN n * 2 ^ (-d)
                  ELSE IF d >= F32_BITS + 5 THEN 0
                  ELSE LET q == n \div 2 ^ d
                           r == n % 2 ^ d
                           half == 2 ^ (d - 1)
                       IN  IF r > half \/ (r = half /\ q % 2 = 1) THEN q + 1 ELSE q
    IN  (IF v.neg THEN <<MINUS>> ELSE <<>>)
        \o Digits(tenths \div 10) \o <<DOT>> \o <<ZERO + (tenths % 10)>>

\* ----------------------------------------------------------------- output

EQUALS == 61
SLASH == 47
COMMA == 44
SPACE == 32
LBRACE == 123
RBRACE == 125

\* v16.rs:283-290.  name.unwrap() panics on a record without a name; the
\* names of the model are ASCII, on which String::from_utf8 is the identity.
format_data_point(self) ==
    IF is_none(self.name) THEN Panic
    ELSE Ok(unwrap(self.name) \o <<EQUALS>>
            \o fmt_f32_1(f32_mul(F32_TENTH, i32_as_f32(self.min_temp)))
            \o <<SLASH>>
            \o fmt_f32_1(f32_div(f32_mul(F32_TENTH, i32_as_f32(self.total)),
                                 i32_as_f32(self.count)))
            \o <<SLASH>>
            \o fmt_f32_1(f32_mul(F32_TENTH, i32_as_f32(self.max_temp))))

RECURSIVE StrLess(_, _)
\* the order of String: byte-wise lexicographic, a proper prefix first
StrLess(a, b) ==
    IF Len(b) = 0 THEN FALSE
    ELSE IF Len(a) = 0 THEN TRUE
    ELSE IF a[1] # b[1] THEN a[1] < b[1]
    ELSE StrLess(Tail(a), Tail(b))

RECURSIVE InsertSorted(_, _)
InsertSorted(sorted, x) ==
    IF sorted = <<>> THEN <<x>>
    ELSE IF StrLess(x, Head(sorted)) THEN <<x>> \o sorted
    ELSE <<Head(sorted)>> \o InsertSorted(Tail(sorted), x)

\* the parts left in the order of the table
Unsorted(parts) == parts

RECURSIVE SortStrings(_)
\* parts.sort()
SortStrings(parts) ==
    IF parts = <<>> THEN <<>>
    ELSE InsertSorted(SortStrings(Tail(parts)), Head(parts))

RECURSIVE Join(_)
\* parts.join(", ")
Join(parts) ==
    IF parts = <<>> THEN <<>>
    ELSE IF Len(parts) = 1 THEN parts[1]
    ELSE parts[1] \o <<COMMA, SPACE>> \o Join(Tail(parts))

RECURSIVE collect_parts(_, _)
\* the filter/map of format_output over the indices idx, in index order
collect_parts(map, idx) ==
    IF idx = {} THEN Ok(<<>>)
    ELSE LET i == SetMin(idx)
             rest == collect_parts(map, idx \ {i})
         IN  IF map[i].count > 0
             THEN LET part == format_data_point(map[i])
                  IN  IF ~part.ok \/ ~rest.ok THEN Panic
                      ELSE Ok(<<part.val>> \o rest.val)
             ELSE rest

\* v16.rs:227-239 (v15.rs:170-182)
format_output(map) ==
    LET parts == collect_parts(map, DOMAIN map)
    IN  IF ~parts.ok THEN Panic
        ELSE Ok(<<LBRACE>> \o Join(SortStrings(parts.val)) \o <<RBRACE>>)

\* ------------------------------------------------------------ input files

HAMBURG == <<72, 97, 109, 98, 117, 114, 103>>
BERLIN == <<66, 101, 114, 108, 105, 110>>
OSLO == <<79, 115, 108, 111>>
ROME == <<82, 111, 109, 101>>
\* a two-byte name and a one-byte name
AB == <<65, 98>>
A == <<65>>
\* a name of n bytes: 'X', n - 2 times 'x', 'Z'
LongName(n) == [i \in 1 .. n |-> IF i = 1 THEN 88 ELSE IF i = n THEN 90 ELSE 120]

\* the text of a value given in tenths of a degree: [-]d.d or [-]dd.d
ValueText(tenths) ==
    LET a == IF tenths < 0 THEN -tenths ELSE tenths
    IN  (IF tenths < 0 THEN <<MINUS>> ELSE <<>>)
        \o Digits(a \div 10) \o <<DOT>> \o <<ZERO + (a % 10)>>

\* one record: name;value\n
Line(rec) == rec[1] \o <<SEMI>> \o ValueText(rec[2]) \o <<NL>>

RECURSIVE Lines(_)
Lines(recs) == IF recs = <<>> THEN <<>> ELSE Line(Head(recs)) \o Lines(Tail(recs))

RECURSIVE Repeat(_, _)
Repeat(recs, n) == IF n = 0 THEN <<>> ELSE recs \o Repeat(recs, n - 1)

\* Hamburg;12.0 / Hamburg;14.0 / Berlin;-3.5
EXAMPLE_RECORDS == <<<<HAMBURG, 120>>, <<HAMBURG, 140>>, <<BERLIN, -35>>>>

CYCLE_RECORDS == <<<<HAMBURG, 120>>, <<BERLIN, -35>>, <<OSLO, 0>>, <<ROME, 251>>,
                   <<BERLIN, 47>>, <<HAMBURG, 140>>, <<ROME, -999>>, <<OSLO, 13>>>>

\* An input file: its bytes, the records it was written from, and whether it
\* satisfies the input contract (name of 1..100 bytes without ';' and '\n',
\* value [-]d.d or [-]dd.d, every record terminated by '\n').
InputFile(recs) == [bytes |-> Lines(recs), records |-> recs, valid |-> TRUE]

\* the same without the terminator of the last record
Unterminated(recs) ==
    [bytes |-> SubSeq(Lines(recs), 1, Len(Lines(recs)) - 1), records |-> recs,
     valid |-> FALSE]

\* the length of the long name, within the 100 bytes of the input contract
LONG_NAME_LEN == 60
CYCLES == 3
\* the records of the file of one-byte names: three buffers of them
SHORT_RECORDS == 45

Files ==
    <<InputFile(EXAMPLE_RECORDS),
      InputFile(Repeat(CYCLE_RECORDS, CYCLES)),
      InputFile(<<<<HAMBURG, 120>>, <<LongName(LONG_NAME_LEN), 55>>>>
                \o CYCLE_RECORDS \o <<<<LongName(LONG_NAME_LEN), -55>>>>
                \o CYCLE_RECORDS),
      InputFile(<<<<HAMBURG, 120>>, <<AB, 10>>, <<BERLIN, -35>>>>),
      Unterminated(<<<<OSLO, 13>>, <<ROME, 20>>>>),
      InputFile(Repeat(<<<<A, 10>>>>, SHORT_RECORDS))>>

\* the names of the records of the input files
StationNames ==
    UNION {{Files[f].records[k][1] : k \in DOMAIN Files[f].records} : f \in DOMAIN Files}

\* bucket_index of every station name, computed once
IndexOfStation == [n \in StationNames |-> bucket_index(n)]

FileBytes == [f \in DOMAIN Files |-> Files[f].bytes]

\* --------------------------------------------------------------- absorbing

\* v16.rs:304-309: get_mut's index of key
get_mut_index(key) ==
    IF key \in StationNames THEN IndexOfStation[key] ELSE bucket_index(key)

\* v16.rs:115: map.get_mut(name_slice).add_temp(temp, name_slice)
absorb(map, name, temp) ==
    LET index == get_mut_index(name)
    IN  IF ~index.ok THEN Panic
        ELSE Ok(SetBacking(map, index.val,
                           add_temp(Backing(map, index.val), temp, name)))

\* ------------------------------------------------- the line reading loop

\* a record reader that takes the name up to the separator wherever the
\* separator is, and a value of zero
process_line_paired(map, line_slice, newline_pos) ==
    LET semicolon == find_char(line_slice, SEMI)
    IN  IF is_none(semicolon) THEN Panic
        ELSE absorb(map, Slice(line_slice, 0, unwrap(semicolon)), 0)

\* v16.rs:110-115 (v15.rs:101-106): one record of line_slice whose
\* terminator was found at newline_pos.  The new table, or Panic.
process_line(map, line_slice, newline_pos) ==
    LET semicolon == find_char(line_slice, SEMI)
    IN  IF is_none(semicolon) THEN Panic
        ELSE LET semicolon_pos == unwrap(semicolon)
             IN  IF semicolon_pos + 1 > newline_pos THEN Panic
                 ELSE LET name_slice == Slice(line_slice, 0, semicolon_pos)
                          temp_slice == Slice(line_slice, semicolon_pos + 1, newline_pos)
                          temp == parse_temp(temp_slice)
                      IN  IF ~temp.ok THEN Panic
                          ELSE absorb(map, name_slice, temp.val)

\* ------------------------------------------------------------------ merge

RECURSIVE merge_bucket(_, _, _, _)
\* v16.rs:171-174: for j in 0..n { accum.merge_with(&maps[j].backing[i]) }
\* from thread j (1-based) on
merge_bucket(accum, maps, i, j) ==
    IF j > Len(maps) THEN accum
    ELSE merge_bucket(merge_with(accum, Backing(maps[j], i)), maps, i, j + 1)

\* v16.rs:165-175 (v15.rs:45-55).  Every index outside the domains of
\* the tables holds StationData::new() in maps[0], so the loop skips it.
merge_maps(maps) ==
    LET kept == {i \in DOMAIN maps[1] : Backing(maps[1], i).count # 0}
    IN  [i \in kept |-> merge_bucket(StationData_new, maps, i, 1)]

\* ------------------------------------------ pipelined topology (v16.rs)

\* v16.rs:129-131 sets 4 workers, 8 buffers of 16 MiB: more buffers than
\* workers
NUM_WORKERS == 2
NUM_BUFS == 3
BUF_SIZE == 128

READER == 0
Workers == 1 .. NUM_WORKERS
NoThread == -1

VARIABLES
    file,         \* the measurements file: an index of Files
    pc,           \* where each thread of the pipeline is: READER and Workers
    empty_bufs,   \* Pool<Box<[u8]>>
    full_chunks,  \* Pool<Chunk>
    bufs,         \* the bytes of each buffer
    reader,       \* the locals of reader_thread: offset, buf, the chunk's len
    workers,      \* the locals of each worker_thread: chunk, offset, map
    main,         \* the locals of run: maps, merged_map, the returned string
    shard,        \* the static-sharding run (v15.rs): segments and scan threads
    probe         \* a call of one function on chosen arguments, and its result

vars == <<file, pc, empty_bufs, full_chunks, bufs, reader, workers, main,
          shard, probe>>

\* the value of the variables of a part of the program that is not running
Off == [pc |-> "off"]
PipeOff ==
    /\ pc = <<>>
    /\ empty_bufs = Off
    /\ full_chunks = Off
    /\ bufs = <<>>
    /\ reader = Off
    /\ workers = <<>>

file_len == Len(FileBytes[file])

\* v16.rs:34-40
Pool_new == [inner |-> <<>>, lock |-> NoThread, waiters |-> {}, closed |-> FALSE]

\* the process lives until the main thread panics
Running == main.pc # "panicked"

\* reader_thread takes from empty_bufs and puts to full_chunks (v16.rs:75,
\* 87); worker_thread takes from full_chunks and puts to empty_bufs (v16.rs:98,
\* 121)
TakePool(t) == IF t = READER THEN empty_bufs ELSE full_chunks
PutPool(t) == IF t = READER THEN full_chunks ELSE empty_bufs
SetTakePool(t, p) ==
    IF t = READER THEN empty_bufs' = p /\ UNCHANGED full_chunks
    ELSE full_chunks' = p /\ UNCHANGED empty_bufs
SetPutPool(t, p) ==
    IF t = READER THEN full_chunks' = p /\ UNCHANGED empty_bufs
    ELSE empty_bufs' = p /\ UNCHANGED full_chunks

\* v16.rs:138-140 and 142-156: the state in which run has filled empty_bufs
\* and spawned the reader and the workers
InitPipe ==
    /\ file \in DOMAIN Files
    /\ pc = [t \in {READER} \cup Workers |-> IF t = READER THEN "loop" ELSE "take_lock"]
    /\ empty_bufs = [Pool_new EXCEPT !.inner = [b \in 1 .. NUM_BUFS |-> b]]
    /\ full_chunks = Pool_new
    /\ bufs = [b \in 1 .. NUM_BUFS |-> [i \in 1 .. BUF_SIZE |-> 0]]
    /\ reader = [offset |-> 0, buf |-> 0, len |-> 0]
    /\ workers = [w \in Workers |->
                    [chunk |-> None, offset |-> 0, map |-> CustomHashMap_new]]
    /\ main = [pc |-> "join", maps |-> <<>>, merged_map |-> CustomHashMap_new,
               output |-> None]
    /\ shard = Off
    /\ probe = Off

\* v16.rs:42 and the re-acquisition of the mutex inside cv.wait at v16.rs:54
Take_lock(t) ==
    /\ Running
    /\ pc[t] \in {"take_lock", "take_relock"}
    /\ TakePool(t).lock = NoThread
    /\ SetTakePool(t, [TakePool(t) EXCEPT !.lock = t])
    /\ pc' = [pc EXCEPT ![t] = "take_pop"]
    /\ UNCHANGED <<file, shard, probe, bufs, reader, workers, main>>

\* v16.rs:44-46: guard.pop(); return Some(taken) drops the guard
Take_pop(t) ==
    /\ Running
    /\ pc[t] = "take_pop"
    /\ LET p == TakePool(t)
           n == Len(p.inner)
       IN  IF n > 0
           THEN /\ SetTakePool(t, [p EXCEPT !.inner = SubSeq(p.inner, 1, n - 1),
                                            !.lock = NoThread])
                /\ IF t = READER
                   THEN /\ reader' = [reader EXCEPT !.buf = p.inner[n]]
                        /\ pc' = [pc EXCEPT ![t] = "read"]
                        /\ UNCHANGED workers
                   ELSE /\ workers' = [workers EXCEPT ![t].chunk = Some(p.inner[n]),
                                                      ![t].offset = 0]
                        /\ pc' = [pc EXCEPT ![t] = "line"]
                        /\ UNCHANGED reader
           ELSE /\ pc' = [pc EXCEPT ![t] = "take_closed"]
                /\ UNCHANGED <<empty_bufs, full_chunks, reader, workers>>
    /\ UNCHANGED <<file, shard, probe, bufs, main>>

\* v16.rs:49-51: the relaxed load of closed.  None ends the worker's loop
\* (v16.rs:100) and is unwrapped by the reader (v16.rs:75).
Take_closed(t) ==
    /\ Running
    /\ pc[t] = "take_closed"
    /\ IF TakePool(t).closed
       THEN /\ SetTakePool(t, [TakePool(t) EXCEPT !.lock = NoThread])
            /\ pc' = [pc EXCEPT ![t] = IF t = READER THEN "panicked" ELSE "returned"]
       ELSE /\ pc' = [pc EXCEPT ![t] = "take_wait"]
            /\ UNCHANGED <<empty_bufs, full_chunks>>
    /\ UNCHANGED <<file, shard, probe, bufs, reader, workers, main>>

\* v16.rs:54: cv.wait(guard) releases the mutex and blocks the thread
Take_wait(t) ==
    /\ Running
    /\ pc[t] = "take_wait"
    /\ SetTakePool(t, [TakePool(t) EXCEPT !.lock = NoThread,
                                          !.waiters = @ \cup {t}])
    /\ pc' = [pc EXCEPT ![t] = "parked"]
    /\ UNCHANGED <<file, shard, probe, bufs, reader, workers, main>>

\* Condvar::wait may return without a notification
Spurious_wakeup(t) ==
    /\ Running
    /\ pc[t] = "parked"
    /\ SetTakePool(t, [TakePool(t) EXCEPT !.waiters = @ \ {t}])
    /\ pc' = [pc EXCEPT ![t] = "take_relock"]
    /\ UNCHANGED <<file, shard, probe, bufs, reader, workers, main>>

\* v16.rs:58
Put_lock(t) ==
    /\ Running
    /\ pc[t] = "put_lock"
    /\ PutPool(t).lock = NoThread
    /\ SetPutPool(t, [PutPool(t) EXCEPT !.lock = t])
    /\ pc' = [pc EXCEPT ![t] = "put_push"]
    /\ UNCHANGED <<file, shard, probe, bufs, reader, workers, main>>

\* a put that hands over the first buffer whatever the thread holds
Returned_first(t) ==
    IF t = READER THEN [buf |-> 1, len |-> reader.len] ELSE 1

\* what the thread t puts: the reader its chunk (v16.rs:86-87), a worker the
\* buffer of its chunk (v16.rs:121)
Returned(t) ==
    IF t = READER THEN [buf |-> reader.buf, len |-> reader.len]
    ELSE unwrap(workers[t].chunk).buf

\* a put that pushes and wakes no waiting thread
Put_push_silent(t) ==
    /\ Running
    /\ pc[t] = "put_push"
    /\ SetPutPool(t, [PutPool(t) EXCEPT !.inner = Append(@, Returned(t)),
                                        !.lock = NoThread])
    /\ pc' = [pc EXCEPT ![t] = IF t = READER THEN "loop" ELSE "take_lock"]
    /\ IF t = READER
       THEN reader' = [reader EXCEPT !.buf = 0, !.len = 0] /\ UNCHANGED workers
       ELSE workers' = [workers EXCEPT ![t].chunk = None] /\ UNCHANGED reader
    /\ UNCHANGED <<file, shard, probe, bufs, main>>

\* v16.rs:59-61: push, notify_one (one waiting thread, if any, is woken), and
\* the guard is dropped
Put_push(t) ==
    /\ Running
    /\ pc[t] = "put_push"
    /\ LET p == PutPool(t)
           pushed == [p EXCEPT !.inner = Append(@, Returned(t)), !.lock = NoThread]
           next == IF t = READER THEN "loop" ELSE "take_lock"
       IN  IF p.waiters = {}
           THEN /\ SetPutPool(t, pushed)
                /\ pc' = [pc EXCEPT ![t] = next]
           ELSE \E w \in p.waiters :
                    /\ SetPutPool(t, [pushed EXCEPT !.waiters = @ \ {w}])
                    /\ pc' = [pc EXCEPT ![t] = next, ![w] = "take_relock"]
    /\ IF t = READER
       THEN reader' = [reader EXCEPT !.buf = 0, !.len = 0] /\ UNCHANGED workers
       ELSE workers' = [workers EXCEPT ![t].chunk = None] /\ UNCHANGED reader
    /\ UNCHANGED <<file, shard, probe, bufs, main>>

\* a reader that leaves its loop after the first chunk
Reader_loop_once ==
    /\ Running
    /\ pc[READER] = "loop"
    /\ pc' = [pc EXCEPT ![READER] =
                 IF reader.offset = 0 THEN "take_lock" ELSE "close_store"]
    /\ UNCHANGED <<file, shard, probe, empty_bufs, full_chunks, bufs, reader, workers, main>>

\* v16.rs:72: while offset < file_len; after the loop, full_chunks.close()
Reader_loop ==
    /\ Running
    /\ pc[READER] = "loop"
    /\ pc' = [pc EXCEPT ![READER] =
                 IF reader.offset < file_len THEN "take_lock" ELSE "close_store"]
    /\ UNCHANGED <<file, shard, probe, empty_bufs, full_chunks, bufs, reader, workers, main>>

\* a reader that publishes all the bytes it has read
Reader_read_whole ==
    /\ Running
    /\ pc[READER] = "read"
    /\ LET b == reader.buf
           bytes_read == Min2(BUF_SIZE, file_len - reader.offset)
       IN  /\ bufs' = [bufs EXCEPT ![b] =
                         [i \in 1 .. BUF_SIZE |->
                             IF i <= bytes_read THEN FileBytes[file][reader.offset + i]
                             ELSE bufs[b][i]]]
           /\ reader' = [reader EXCEPT !.offset = @ + bytes_read, !.len = bytes_read]
           /\ pc' = [pc EXCEPT ![READER] = "put_lock"]
    /\ UNCHANGED <<file, shard, probe, empty_bufs, full_chunks, workers, main>>

\* v16.rs:78-86: read_at fills the front of the buffer; the chunk ends after
\* the last '\n' read, and rposition(..).unwrap() panics when there is none
Reader_read ==
    /\ Running
    /\ pc[READER] = "read"
    /\ LET b == reader.buf
           bytes_read == Min2(BUF_SIZE, file_len - reader.offset)
           data == [i \in 1 .. BUF_SIZE |->
                       IF i <= bytes_read THEN FileBytes[file][reader.offset + i]
                       ELSE bufs[b][i]]
           newlines == {i \in 0 .. bytes_read - 1 : data[i + 1] = NL}
       IN  IF newlines = {}
           \* the unwinding thread drops buf: the buffer is freed
           THEN /\ bufs' = [bufs EXCEPT ![b] = <<>>]
                /\ reader' = [reader EXCEPT !.buf = 0]
                /\ pc' = [pc EXCEPT ![READER] = "panicked"]
           ELSE LET last_newline_pos == SetMax(newlines)
                IN  /\ bufs' = [bufs EXCEPT ![b] = data]
                    /\ reader' = [reader EXCEPT
                                     !.offset = @ + last_newline_pos + 1,
                                     !.len = last_newline_pos + 1]
                    /\ pc' = [pc EXCEPT ![READER] = "put_lock"]
    /\ UNCHANGED <<file, shard, probe, empty_bufs, full_chunks, workers, main>>

\* v16.rs:78: read_at returns Err and unwrap() panics; buf is dropped
Reader_read_error ==
    /\ Running
    /\ pc[READER] = "read"
    /\ bufs' = [bufs EXCEPT ![reader.buf] = <<>>]
    /\ reader' = [reader EXCEPT !.buf = 0]
    /\ pc' = [pc EXCEPT ![READER] = "panicked"]
    /\ UNCHANGED <<file, shard, probe, empty_bufs, full_chunks, workers, main>>

\* v16.rs:63: the store of closed, made without holding the mutex
Close_store ==
    /\ Running
    /\ pc[READER] = "close_store"
    /\ full_chunks' = [full_chunks EXCEPT !.closed = TRUE]
    /\ pc' = [pc EXCEPT ![READER] = "close_notify"]
    /\ UNCHANGED <<file, shard, probe, empty_bufs, bufs, reader, workers, main>>

\* v16.rs:64: notify_all wakes the threads that are waiting now; then
\* reader_thread returns
Close_notify ==
    /\ Running
    /\ pc[READER] = "close_notify"
    /\ full_chunks' = [full_chunks EXCEPT !.waiters = {}]
    /\ pc' = [t \in DOMAIN pc |->
                 IF t = READER THEN "returned"
                 ELSE IF t \in full_chunks.waiters THEN "take_relock"
                 ELSE pc[t]]
    /\ UNCHANGED <<file, shard, probe, empty_bufs, bufs, reader, workers, main>>

\* a worker that drops its chunk instead of reading it
Worker_line_drop(w) ==
    /\ Running
    /\ pc[w] = "line"
    /\ workers' = [workers EXCEPT ![w].chunk = None]
    /\ pc' = [pc EXCEPT ![w] = "take_lock"]
    /\ UNCHANGED <<file, shard, probe, empty_bufs, full_chunks, bufs, reader, main>>

\* v16.rs:104-118: one pass of the line reading loop: one record of the
\* chunk, or the end of the loop
Worker_line(w) ==
    /\ Running
    /\ pc[w] = "line"
    /\ LET chunk == unwrap(workers[w].chunk)
           buf_slice == Slice(bufs[chunk.buf], 0, chunk.len)
           offset == workers[w].offset
       IN  IF offset < Len(buf_slice)
           THEN LET line_slice == SliceFrom(buf_slice, offset)
                    newline == find_char(line_slice, NL)
                    map == IF is_none(newline) THEN Panic
                           ELSE process_line(workers[w].map, line_slice, unwrap(newline))
                IN  IF map.ok
                    THEN /\ workers' = [workers EXCEPT
                                           ![w].map = map.val,
                                           ![w].offset = @ + unwrap(newline) + 1]
                         /\ UNCHANGED <<pc, bufs>>
                    \* the unwinding thread drops chunk: its buffer is freed
                    ELSE /\ workers' = [workers EXCEPT ![w].chunk = None]
                         /\ bufs' = [bufs EXCEPT ![chunk.buf] = <<>>]
                         /\ pc' = [pc EXCEPT ![w] = "panicked"]
           ELSE /\ pc' = [pc EXCEPT ![w] = "put_lock"]
                /\ UNCHANGED <<workers, bufs>>
    /\ UNCHANGED <<file, shard, probe, empty_bufs, full_chunks, reader, main>>

\* a main thread that takes the table of the next worker without joining it
Main_join_early ==
    /\ main.pc = "join"
    /\ LET w == Len(main.maps) + 1
       IN  main' = [main EXCEPT
                       !.maps = Append(@, workers[w].map),
                       !.pc = IF w = NUM_WORKERS THEN "merge" ELSE "join"]
    /\ UNCHANGED <<file, shard, probe, pc, empty_bufs, full_chunks, bufs, reader, workers>>

\* v16.rs:158-163: h.join().unwrap() of the next worker, in spawn order; the
\* unwrap panics the main thread when the worker panicked
Main_join ==
    /\ main.pc = "join"
    /\ LET w == Len(main.maps) + 1
       IN  \/ /\ pc[w] = "returned"
              /\ main' = [main EXCEPT
                             !.maps = Append(@, workers[w].map),
                             !.pc = IF w = NUM_WORKERS THEN "merge" ELSE "join"]
           \/ /\ pc[w] = "panicked"
              /\ main' = [main EXCEPT !.pc = "panicked"]
    /\ UNCHANGED <<file, shard, probe, pc, empty_bufs, full_chunks, bufs, reader, workers>>

\* v16.rs:165-175 (v15.rs:45-55)
Main_merge ==
    /\ main.pc = "merge"
    /\ main' = [main EXCEPT !.merged_map = merge_maps(main.maps), !.pc = "format"]
    /\ UNCHANGED <<file, shard, probe, pc, empty_bufs, full_chunks, bufs, reader, workers>>

\* v16.rs:177 (v15.rs:57)
Main_format ==
    /\ main.pc = "format"
    /\ LET result == format_output(main.merged_map)
       IN  main' = [main EXCEPT
                       !.output = IF result.ok THEN Some(result.val) ELSE None,
                       !.pc = IF result.ok THEN "done" ELSE "panicked"]
    /\ UNCHANGED <<file, shard, probe, pc, empty_bufs, full_chunks, bufs, reader, workers>>

NextPipe ==
    \/ \E t \in {READER} \cup Workers :
          \/ Take_lock(t)
          \/ Take_pop(t)
          \/ Take_closed(t)
          \/ Take_wait(t)
          \/ Spurious_wakeup(t)
          \/ Put_lock(t)
          \/ Put_push(t)
    \/ Reader_loop
    \/ Reader_read
    \/ Reader_read_error
    \/ Close_store
    \/ Close_notify
    \/ \E w \in Workers : Worker_line(w)
    \/ Main_join
    \/ Main_merge
    \/ Main_format

SpecPipe == InitPipe /\ [][NextPipe]_vars

\* The steps the scheduler takes as long as one of them is possible: all but
\* the failure of a read and the spurious return of a wait.
ScheduledPipe ==
    \/ \E t \in {READER} \cup Workers :
          \/ Take_lock(t)
          \/ Take_pop(t)
          \/ Take_closed(t)
          \/ Take_wait(t)
          \/ Put_lock(t)
          \/ Put_push(t)
    \/ Reader_loop
    \/ Reader_read
    \/ Close_store
    \/ Close_notify
    \/ \E w \in Workers : Worker_line(w)
    \/ Main_join
    \/ Main_merge
    \/ Main_format

\* ------------------------------------- static-sharding topology (v15.rs)

\* v15.rs:23 sets 7 segments; the number of segments of a run is chosen up to
MAX_SEGMENTS == 3
\* v15.rs:64: the probe window of find_segment_splits
PROBE_LEN == 64

RECURSIVE split_loop(_, _, _, _, _)
\* v15.rs:68-77: the passes i .. num_segments - 1 of the loop and the last push
split_loop(bytes, num_segments, i, prev, split_indices) ==
    LET expected_segment_size == Len(bytes) \div num_segments
        search_start == i * expected_segment_size
    IN  IF i >= num_segments THEN Ok(Append(split_indices, <<prev, Len(bytes)>>))
        \* read_exact_at fails unless PROBE_LEN bytes follow search_start
        ELSE IF search_start + PROBE_LEN > Len(bytes) THEN Panic
        ELSE LET buf == Slice(bytes, search_start, search_start + PROBE_LEN)
                 hits == {j \in 0 .. PROBE_LEN - 1 : buf[j + 1] = NL}
             IN  IF hits = {} THEN Panic
                 ELSE LET curr == search_start + SetMin(hits) + 1
                      IN  split_loop(bytes, num_segments, i + 1, curr,
                                     Append(split_indices, <<prev, curr>>))

\* v15.rs:60-80
find_segment_splits(bytes, num_segments) ==
    split_loop(bytes, num_segments, 1, 0, <<>>)

InitShard ==
    /\ file \in DOMAIN Files
    /\ PipeOff
    /\ main = [pc |-> "plan", maps |-> <<>>, merged_map |-> CustomHashMap_new,
               output |-> None]
    /\ \E n \in 1 .. MAX_SEGMENTS :
          shard = [num_segments |-> n, split_indices |-> <<>>, scan |-> <<>>]
    /\ probe = Off

\* v15.rs:26-36: the segments are planned and one thread is spawned for each;
\* v15.rs:83-87 are the locals a thread starts with
Shard_plan ==
    /\ main.pc = "plan"
    /\ LET splits == find_segment_splits(FileBytes[file], shard.num_segments)
       IN  IF splits.ok
           THEN /\ shard' = [shard EXCEPT
                    !.split_indices = splits.val,
                    !.scan = [k \in DOMAIN splits.val |->
                                [pc |-> "read",
                                 start_pos |-> splits.val[k][1],
                                 end_pos |-> splits.val[k][2],
                                 offset |-> splits.val[k][1],
                                 buf |-> [i \in 1 .. BUF_SIZE |-> 0],
                                 line_start |-> 0,
                                 map |-> CustomHashMap_new]]]
                /\ main' = [main EXCEPT !.pc = "join"]
           ELSE /\ main' = [main EXCEPT !.pc = "panicked"]
                /\ UNCHANGED shard
    /\ UNCHANGED <<file, probe, pc, empty_bufs, full_chunks, bufs, reader, workers>>

\* v15.rs:91-97: read_at fills the front of buf, which is truncated to the
\* bytes read when they are fewer than BUF_SIZE
Scan_read(k) ==
    /\ Running
    /\ k \in DOMAIN shard.scan
    /\ shard.scan[k].pc = "read"
    /\ LET me == shard.scan[k]
           bytes_read == Min2(Len(me.buf), file_len - me.offset)
           data == [i \in 1 .. Len(me.buf) |->
                       IF i <= bytes_read THEN FileBytes[file][me.offset + i]
                       ELSE me.buf[i]]
       IN  shard' = [shard EXCEPT
               !.scan[k].buf = IF bytes_read < BUF_SIZE
                                    THEN SubSeq(data, 1, bytes_read) ELSE data,
               !.scan[k].line_start = 0,
               !.scan[k].pc = "line"]
    /\ UNCHANGED <<file, probe, pc, empty_bufs, full_chunks, bufs, reader, workers, main>>

\* v15.rs:98-112: one pass of the line reading loop
Scan_line(k) ==
    /\ Running
    /\ k \in DOMAIN shard.scan
    /\ shard.scan[k].pc = "line"
    /\ LET me == shard.scan[k]
           slice == SliceFrom(me.buf, me.line_start)
           newline == find_char(slice, NL)
       IN  IF is_some(newline)
           THEN LET map == process_line(me.map, slice, unwrap(newline))
                IN  IF map.ok
                    THEN shard' = [shard EXCEPT
                             !.scan[k].map = map.val,
                             !.scan[k].line_start = @ + unwrap(newline) + 1]
                    ELSE shard' = [shard EXCEPT !.scan[k].pc = "panicked"]
           ELSE shard' = [shard EXCEPT !.scan[k].pc = "advance"]
    /\ UNCHANGED <<file, probe, pc, empty_bufs, full_chunks, bufs, reader, workers, main>>

\* v15.rs:115-118
Scan_advance(k) ==
    /\ Running
    /\ k \in DOMAIN shard.scan
    /\ shard.scan[k].pc = "advance"
    /\ LET offset == shard.scan[k].offset + shard.scan[k].line_start
       IN  shard' = [shard EXCEPT
               !.scan[k].offset = offset,
               !.scan[k].pc = IF offset >= shard.scan[k].end_pos
                                   THEN "returned" ELSE "read"]
    /\ UNCHANGED <<file, probe, pc, empty_bufs, full_chunks, bufs, reader, workers, main>>

\* v15.rs:38-43: h.join().unwrap() of the next thread, in segment order
Shard_join ==
    /\ main.pc = "join"
    /\ LET k == Len(main.maps) + 1
       IN  \/ /\ shard.scan[k].pc = "returned"
              /\ main' = [main EXCEPT
                             !.maps = Append(@, shard.scan[k].map),
                             !.pc = IF k = shard.num_segments THEN "merge" ELSE "join"]
           \/ /\ shard.scan[k].pc = "panicked"
              /\ main' = [main EXCEPT !.pc = "panicked"]
    /\ UNCHANGED <<file, shard, probe, pc, empty_bufs, full_chunks, bufs, reader, workers>>

NextShard ==
    \/ Shard_plan
    \/ \E k \in 1 .. MAX_SEGMENTS :
          \/ Scan_read(k)
          \/ Scan_line(k)
          \/ Scan_advance(k)
    \/ Shard_join
    \/ Main_merge
    \/ Main_format

SpecShard == InitShard /\ [][NextShard]_vars

\* ------------------------------------------------- calls of one function

\* find_char on a window of '0' bytes that holds the target at the offsets of
\* at, asked for the target
MAX_WINDOW == 50
Window(len, at, target) == [i \in 1 .. len |-> IF i - 1 \in at THEN target ELSE ZERO]

InitFind ==
    /\ file = 1
    /\ PipeOff
    /\ main = Off
    /\ shard = Off
    /\ \E len \in 0 .. MAX_WINDOW, target \in {NL, SEMI} :
       \E p \in 0 .. len :
       \E q \in {p, p + 1, len} :
          probe = [pc |-> "call",
                   buf |-> Window(len, {p, q} \cap (0 .. len - 1), target),
                   target |-> target,
                   found |-> None]

Call_find_char ==
    /\ probe.pc = "call"
    /\ probe' = [probe EXCEPT !.found = find_char(probe.buf, probe.target),
                              !.pc = "returned"]
    /\ UNCHANGED <<file, pc, empty_bufs, full_chunks, bufs, reader, workers, main, shard>>

NextFind == Call_find_char

SpecFind == InitFind /\ [][NextFind]_vars

\* the merge loop of run on per-thread tables: each table is what a thread
\* holds after absorbing up to MAX_ABSORBED of the records of MERGE_RECORDS
MAX_TABLES == 3
MAX_ABSORBED == 2
MERGE_RECORDS == {<<HAMBURG, 120>>, <<HAMBURG, 140>>, <<BERLIN, -35>>}

RECURSIVE absorb_all(_, _)
absorb_all(map, recs) ==
    IF recs = <<>> THEN map
    ELSE absorb_all(absorb(map, Head(recs)[1], Head(recs)[2]).val, Tail(recs))

ThreadTables ==
    {absorb_all(CustomHashMap_new, recs) :
        recs \in UNION {[1 .. n -> MERGE_RECORDS] : n \in 0 .. MAX_ABSORBED}}

InitMerge ==
    /\ file = 1
    /\ PipeOff
    /\ shard = Off
    /\ probe = Off
    /\ \E n \in 1 .. MAX_TABLES :
       \E maps \in [1 .. n -> ThreadTables] :
          main = [pc |-> "merge", maps |-> maps, merged_map |-> CustomHashMap_new,
                  output |-> None]

NextMerge == Main_merge \/ Main_format

SpecMerge == InitMerge /\ [][NextMerge]_vars

\* -------------------------------------------------------- reference values
\* What the records of a file amount to, computed from the records themselves
\* and not by the functions of the program.

RecordsNamed(f, n) == {k \in DOMAIN Files[f].records : Files[f].records[k][1] = n}

RECURSIVE SumTemps(_, _)
SumTemps(recs, n) ==
    IF recs = <<>> THEN 0
    ELSE (IF Head(recs)[1] = n THEN Head(recs)[2] ELSE 0) + SumTemps(Tail(recs), n)

\* the summary of the station n over all the records of the file f
StationSummary(f, n) ==
    LET temps == {Files[f].records[k][2] : k \in RecordsNamed(f, n)}
    IN  [min_temp |-> SetMin(temps), max_temp |-> SetMax(temps),
         total |-> SumTemps(Files[f].records, n),
         count |-> Cardinality(RecordsNamed(f, n)),
         name |-> Some(n)]

\* the records of a file whose name is shorter than three bytes
ShortRecords(f) == {k \in DOMAIN Files[f].records : Len(Files[f].records[k][1]) < 3}

NamesOf(f) == {Files[f].records[k][1] : k \in DOMAIN Files[f].records}

\* the table that holds, at the bucket of every station of the file, the
\* summary of all its records: what one scan of the whole file amounts to
ExpectedTables ==
    [f \in DOMAIN Files |->
        LET hashed == {n \in NamesOf(f) : IndexOfStation[n].ok}
        IN  [i \in {IndexOfStation[n].val : n \in hashed} |->
                StationSummary(f, CHOOSE n \in hashed : IndexOfStation[n].val = i)]]

SameTable(a, b) == \A i \in (DOMAIN a) \cup (DOMAIN b) : Backing(a, i) = Backing(b, i)

RECURSIVE SumField(_, _, _)
\* the sum over the tables of maps of a field of the record at index i
SumField(maps, i, field) ==
    IF maps = <<>> THEN 0
    ELSE Backing(Head(maps), i)[field] + SumField(Tail(maps), i, field)

FieldsOf(maps, i, field) == {Backing(maps[j], i)[field] : j \in DOMAIN maps}

\* the indices at which a table of maps holds a record other than
\* StationData::new()
TouchedIndices(maps) == UNION {DOMAIN maps[j] : j \in DOMAIN maps}

RECURSIVE SumOfCounts(_, _)
SumOfCounts(map, idx) ==
    IF idx = {} THEN 0
    ELSE LET i == CHOOSE i \in idx : TRUE
         IN  map[i].count + SumOfCounts(map, idx \ {i})

\* the number of records a table has absorbed
TableCount(map) == SumOfCounts(map, DOMAIN map)

\* the tables of a function of tables, as a sequence
TablesOf(holders) == [j \in 1 .. Len(holders) |-> holders[j].map]

\* ------------------------------------------------------------- properties

\* C1: once the merge loop has ended, for every bucket index i the merged
\* record's count and total are the sums of the per-thread counts and totals
\* at i, its min_temp is the least and its max_temp the greatest of the
\* per-thread values at i.  (At every index outside TouchedIndices and the
\* merged table all the records are StationData::new(), the sums are 0 and
\* the extrema the sentinels.)
C1_MergeSumsAndExtrema ==
    main.pc \in {"format", "done"} =>
        \A i \in TouchedIndices(main.maps) \cup DOMAIN main.merged_map :
            LET merged == Backing(main.merged_map, i)
            IN  /\ merged.count = SumField(main.maps, i, "count")
                /\ merged.total = SumField(main.maps, i, "total")
                /\ merged.min_temp = SetMin(FieldsOf(main.maps, i, "min_temp"))
                /\ merged.max_temp = SetMax(FieldsOf(main.maps, i, "max_temp"))

\* a thread has terminated when it has returned or panicked
Terminated(t) == pc[t] \in {"returned", "panicked"}

\* the records named n that the tables of maps have absorbed, and their sum
Absorbed(maps, n, field) ==
    IF IndexOfStation[n].ok THEN SumField(maps, IndexOfStation[n].val, field) ELSE 0

\* every record of the file has been absorbed by the tables of maps once:
\* the tables hold as many records as the file, and for every station the
\* number and the sum of its records
AbsorbedOnce(maps) ==
    /\ \A n \in NamesOf(file) :
          /\ Absorbed(maps, n, "count") = Cardinality(RecordsNamed(file, n))
          /\ Absorbed(maps, n, "total") = SumTemps(Files[file].records, n)
    /\ \A j \in DOMAIN maps :
          \A i \in DOMAIN maps[j] :
              \E n \in NamesOf(file) : IndexOfStation[n] = Ok(i)

\* C2: pipelined run, input file satisfying the input contract, any
\* interleaving: once all workers have terminated, every record of the file
\* has been absorbed by exactly one worker exactly once (none skipped, none
\* absorbed twice).  Files with a name shorter than three bytes, on which
\* absorbing is a fatal error (C17), are left aside.
C2_PipelinedExactlyOnce ==
    (Files[file].valid /\ ShortRecords(file) = {} /\ \A w \in Workers : Terminated(w))
        => AbsorbedOnce(TablesOf(workers))

\* the records of the file whose bytes lie in [start, end): as many as there
\* are terminators in it
RecordsIn(start, end) ==
    Cardinality({i \in start .. end - 1 : FileBytes[file][i + 1] = NL})

\* C3: sharded run, input file satisfying the input contract: a thread that
\* has returned has absorbed exactly the records whose bytes lie in its
\* segment [start, end), and once all threads have returned every record of
\* the file has been absorbed exactly once.
C3_ShardedExactlyOnce ==
    (Files[file].valid /\ shard.scan # <<>>
     /\ \A k \in DOMAIN shard.scan : shard.scan[k].pc = "returned")
        => /\ \A k \in DOMAIN shard.scan :
                 TableCount(shard.scan[k].map)
                     = RecordsIn(shard.scan[k].start_pos, shard.scan[k].end_pos)
           /\ AbsorbedOnce(TablesOf(shard.scan))

\* C4: pipelined run without a thread failure: once the reader has closed
\* full_chunks, every worker gets None from take and returns; no worker stays
\* blocked in take forever.  In a state where closed is set and no scheduled
\* step is left, every worker has returned.
C4_ClosedWorkersReturn ==
    (Running /\ full_chunks.closed /\ ~ENABLED ScheduledPipe
     /\ \A t \in DOMAIN pc : pc[t] # "panicked")
        => \A w \in Workers : pc[w] = "returned"

\* C5: for every input file whose records all end with the terminator and
\* every number of segments N >= 1, planning returns N segments
\* (s_0,e_0) .. (s_{N-1},e_{N-1}) with s_0 = 0, e_{N-1} = file length,
\* e_k = s_{k+1}, s_k <= e_k, and the terminator at offset s_k - 1 for k > 0.
C5_SegmentationSafety ==
    (Files[file].valid /\ main.pc # "plan")
        => LET split == shard.split_indices
               N == shard.num_segments
           IN  /\ Len(split) = N
               /\ split[1][1] = 0
               /\ split[N][2] = file_len
               /\ \A k \in 1 .. N - 1 : split[k][2] = split[k + 1][1]
               /\ \A k \in 1 .. N : split[k][1] <= split[k][2]
               /\ \A k \in 2 .. N : FileBytes[file][split[k][1]] = NL

\* C6: pipelined run of a fixed input file: the merged table, and therefore
\* the output string, is the same for every interleaving: the one of the
\* interleaving in which the first worker takes every chunk, ExpectedTables.
C6_PipelinedDeterminism ==
    (Files[file].valid /\ main.pc = "done")
        => /\ SameTable(main.merged_map, ExpectedTables[file])
           /\ main.output = Some(format_output(ExpectedTables[file]).val)

\* C7: for every input file satisfying the input contract and every number of
\* segments N >= 1, the merged table of the sharded run equals the table of
\* one sequential scan of the whole file.
C7_ShardedEqualsSequential ==
    (Files[file].valid /\ shard # Off /\ main.pc \in {"format", "done"})
        => SameTable(main.merged_map, ExpectedTables[file])

\* C8: for every byte window and target byte, find_char returns what the
\* byte-at-a-time scan returns: the offset of the first occurrence of the
\* target in the window, or None when the window does not hold it.
C8_ScannerEqualsScalar ==
    probe.pc = "returned" => probe.found = memchr(probe.target, probe.buf)

\* {Berlin=-3.5/-3.5/-3.5, Hamburg=12.0/13.0/14.0}
EXAMPLE_OUTPUT ==
    <<LBRACE>> \o BERLIN \o <<EQUALS, MINUS, 51, DOT, 53, SLASH, MINUS, 51, DOT, 53,
                              SLASH, MINUS, 51, DOT, 53, COMMA, SPACE>>
    \o HAMBURG \o <<EQUALS, 49, 50, DOT, ZERO, SLASH, 49, 51, DOT, ZERO, SLASH,
                    49, 52, DOT, ZERO, RBRACE>>

\* (min, sum, count, max) in tenths of a degree
EXAMPLE_TABLE ==
    (IndexOfStation[HAMBURG].val :>
        [min_temp |-> 120, total |-> 260, count |-> 2, max_temp |-> 140,
         name |-> Some(HAMBURG)])
    @@ (IndexOfStation[BERLIN].val :>
        [min_temp |-> -35, total |-> -35, count |-> 1, max_temp |-> -35,
         name |-> Some(BERLIN)])

\* C9: on the file Hamburg;12.0 / Hamburg;14.0 / Berlin;-3.5 every run, in
\* either topology, ends with the table holding exactly the records Hamburg
\* (120, 260, 2, 140) and Berlin (-35, -35, 1, -35) and with the output
\* {Berlin=-3.5/-3.5/-3.5, Hamburg=12.0/13.0/14.0}.  Here: the sharded run
\* does not fail, and when it has ended the table and the output are these.
C9_ExampleEndToEnd ==
    (file = 1 /\ shard # Off)
        => /\ main.pc # "panicked"
           /\ (main.pc = "done"
                  => /\ SameTable(main.merged_map, EXAMPLE_TABLE)
                     /\ main.output = Some(EXAMPLE_OUTPUT))

\* C10: pipelined run in which the reader thread fails (a read error, an
\* input without a terminator): the whole program aborts.  It never returns
\* an output string, and it does not come to rest before the main thread has
\* panicked.
C10_ReaderFailureAborts ==
    pc[READER] = "panicked"
        => /\ main.pc # "done"
           /\ (~ENABLED ScheduledPipe => main.pc = "panicked")

\* the number of elements of the sequence seq that satisfy Test
Count(seq, Test(_)) == Cardinality({j \in DOMAIN seq : Test(seq[j])})

\* the number of places that hold the buffer b: the empty side, the ready
\* side, the reader, the workers
Holdings(b) ==
    LET IsB(x) == x = b
        HasB(chunk) == chunk.buf = b
    IN  Count(empty_bufs.inner, IsB)
        + Count(full_chunks.inner, HasB)
        + (IF reader.buf = b THEN 1 ELSE 0)
        + Cardinality({w \in Workers :
                          is_some(workers[w].chunk) /\ unwrap(workers[w].chunk).buf = b})

\* C11: in every state of the pipelined run every buffer is in exactly one
\* place: the empty side of the pool, the ready side, the reader, or one
\* worker; never in two.  A buffer that the panic of its holder has freed
\* (it has no bytes any more) is in none.
C11_BufferExclusiveOwnership ==
    \A b \in DOMAIN bufs : Holdings(b) = IF bufs[b] = <<>> THEN 0 ELSE 1

\* the reader holds a buffer, a worker another, a third is in a pool
C11_Witness ==
    /\ reader.buf # 0
    /\ \E w \in Workers : is_some(workers[w].chunk)
    /\ Len(empty_bufs.inner) + Len(full_chunks.inner) > 0

\* two tables hold the same min, max, sum and count at every bucket index
SameNumbers(a, b) ==
    \A i \in (DOMAIN a) \cup (DOMAIN b) :
        /\ Backing(a, i).min_temp = Backing(b, i).min_temp
        /\ Backing(a, i).max_temp = Backing(b, i).max_temp
        /\ Backing(a, i).total = Backing(b, i).total
        /\ Backing(a, i).count = Backing(b, i).count

\* C12: for any two per-thread tables A and B, the merge loop of run on
\* [A, B] and on [B, A] yields tables with the same min, max, sum and count
\* at every bucket index.
C12_MergeCommutes ==
    (main.pc \in {"format", "done"} /\ Len(main.maps) = 2)
        => SameNumbers(main.merged_map, merge_maps(<<main.maps[2], main.maps[1]>>))

\* ------------------------------------------------- a call of parse_temp

\* the integer parts of the values of the input contract: one or two digits
IntegerParts == UNION {[1 .. n -> 0 .. 9] : n \in {1, 2}}

\* the text [-]d.d or [-]dd.d
ValueString(neg, int, frac) ==
    (IF neg THEN <<MINUS>> ELSE <<>>)
    \o [j \in DOMAIN int |-> ZERO + int[j]] \o <<DOT, ZERO + frac>>

InitParse ==
    /\ file = 1
    /\ PipeOff
    /\ main = Off
    /\ shard = Off
    /\ \E neg \in BOOLEAN, int \in IntegerParts, frac \in 0 .. 9 :
          probe = [pc |-> "call", neg |-> neg, int |-> int, frac |-> frac,
                   line |-> ValueString(neg, int, frac), parsed |-> None]

Call_parse_temp ==
    /\ probe.pc = "call"
    /\ probe' = [probe EXCEPT !.parsed = Some(parse_temp(probe.line)),
                              !.pc = "returned"]
    /\ UNCHANGED <<file, pc, empty_bufs, full_chunks, bufs, reader, workers, main, shard>>

NextParse == Call_parse_temp

SpecParse == InitParse /\ [][NextParse]_vars

\* the number an integer part stands for
IntegerValue(int) == IF Len(int) = 1 THEN int[1] ELSE 10 * int[1] + int[2]

\* C13: for every value string [-]d.d or [-]dd.d parse_temp returns the
\* signed number of tenths, sign * (10 * integer part + fractional digit);
\* -0.0 yields 0, and the result lies in [-999, 999].
C13_ParseTempTenths ==
    probe.pc = "returned"
        => LET tenths == 10 * IntegerValue(probe.int) + probe.frac
               parsed == unwrap(probe.parsed)
           IN  /\ parsed = Ok(IF probe.neg THEN -tenths ELSE tenths)
               /\ parsed.val >= -999 /\ parsed.val <= 999

\* -99.9 has been parsed, and so has -0.0
C13_Witness ==
    /\ probe.pc = "returned"
    /\ probe.neg
    /\ \/ probe.line = <<MINUS, NINE, NINE, DOT, NINE>> /\ unwrap(probe.parsed) = Ok(-999)
       \/ probe.line = <<MINUS, ZERO, DOT, ZERO>> /\ unwrap(probe.parsed) = Ok(0)

\* ------------------------------------------ format_output on a table

\* "Ab", "Ab c", "Abz", "Ba": the first is a proper prefix of the second and
\* of the third
FORMAT_NAMES == <<<<65, 98>>, <<65, 98, 32, 99>>, <<65, 98, 122>>, <<66, 97>>>>

\* a merged table that holds one record of name FORMAT_NAMES[k] at the index
\* at[k], for the k of the domain of at
FormatTable(at) ==
    [i \in {at[k] : k \in DOMAIN at} |->
        LET k == CHOOSE k \in DOMAIN at : at[k] = i
        IN  add_temp(StationData_new, 10 * k, FORMAT_NAMES[k])]

InitFormat ==
    /\ file = 1
    /\ PipeOff
    /\ shard = Off
    /\ probe = Off
    /\ \E chosen \in SUBSET DOMAIN FORMAT_NAMES :
       \E at \in [chosen -> DOMAIN FORMAT_NAMES] :
          /\ \A j, k \in chosen : j # k => at[j] # at[k]
          /\ main = [pc |-> "format", maps |-> <<>>, merged_map |-> FormatTable(at),
                     output |-> None]

NextFormat == Main_format

SpecFormat == InitFormat /\ [][NextFormat]_vars

\* the names of the non-empty records of a table
NamesIn(map) == {unwrap(map[i].name) : i \in {i \in DOMAIN map : map[i].count > 0}}

RECURSIVE Ascending(_)
\* the names of a set in ascending byte-wise order
Ascending(names) ==
    IF names = {} THEN <<>>
    ELSE LET least == CHOOSE n \in names : \A m \in names \ {n} : StrLess(n, m)
         IN  <<least>> \o Ascending(names \ {least})

\* the entry of the station of a name in a table
EntryOf(map, n) ==
    format_data_point(map[CHOOSE i \in DOMAIN map : map[i].name = Some(n)]).val

\* the output whose entries are in ascending order of the station names
ByName(map) ==
    LET names == Ascending(NamesIn(map))
    IN  <<LBRACE>> \o Join([j \in DOMAIN names |-> EntryOf(map, names[j])]) \o <<RBRACE>>

IsProperPrefix(a, b) == Len(a) < Len(b) /\ SubSeq(b, 1, Len(a)) = a

NoProperPrefix(names) == \A a, b \in names : ~IsProperPrefix(a, b)

MAX_RENDERED == 3
MAX_TENTHS == 3

RECURSIVE add_all(_, _, _)
add_all(data, temps, name) ==
    IF temps = <<>> THEN data
    ELSE add_all(add_temp(data, Head(temps), name), Tail(temps), name)

InitRender ==
    /\ file = 1
    /\ PipeOff
    /\ main = Off
    /\ shard = Off
    /\ \E n \in 1 .. MAX_RENDERED :
       \E temps \in [1 .. n -> -MAX_TENTHS .. MAX_TENTHS] :
          probe = [pc |-> "call", data |-> add_all(StationData_new, temps, OSLO),
                   rendered |-> None]

Call_format_data_point ==
    /\ probe.pc = "call"
    /\ probe' = [probe EXCEPT !.rendered = Some(format_data_point(probe.data)),
                              !.pc = "returned"]
    /\ UNCHANGED <<file, pc, empty_bufs, full_chunks, bufs, reader, workers, main, shard>>

NextRender == Call_format_data_point

SpecRender == InitRender /\ [][NextRender]_vars

\* the exact quotient total / count rounded to a whole number of tenths, a
\* quotient halfway between two of them toward positive infinity
RoundHalfUp(total, count) == (2 * total + count) \div (2 * count)

\* the texts of the mean of a record: the rounded quotient; a negative
\* quotient that rounds to zero may keep its sign
MeanTexts(total, count) ==
    {ValueText(RoundHalfUp(total, count))}
    \cup (IF total < 0 /\ RoundHalfUp(total, count) = 0
          THEN {<<MINUS, ZERO, DOT, ZERO>>} ELSE {})

\* C15: for every non-empty record the rendered mean is the exact quotient
\* sum / count rounded to one fractional digit, a quotient halfway between
\* two tenths toward positive infinity: sum 3 and count 2 renders 0.2, sum -3
\* and count 2 renders -0.1.
C15_MeanRoundsHalfUp ==
    probe.pc = "returned"
        => \E mean \in MeanTexts(probe.data.total, probe.data.count) :
              unwrap(probe.rendered) =
                  Ok(OSLO \o <<EQUALS>> \o ValueText(probe.data.min_temp) \o <<SLASH>>
                     \o mean \o <<SLASH>> \o ValueText(probe.data.max_temp))

\* ------------------------------------- calls of add_temp and merge_with

\* A record that has absorbed ACC_BASE values of 99.9 or of -99.9 absorbs up
\* to MAX_ADDED values more, or is merged with records like it.  Beside the
\* record the exact sum and number of the values are kept.
ACC_BASE == 2149630
MAX_ADDED == 4
ACC_TEMPS == {-999, -1, 1, 999}

\* An exact integer is [q, r]: the value q * BIG_LIMB + r with 0 <= r < BIG_LIMB.
BIG_LIMB == 10 ^ 6
Big(x) == [q |-> x \div BIG_LIMB, r |-> x % BIG_LIMB]
BigAdd(a, b) ==
    [q |-> a.q + b.q + (a.r + b.r) \div BIG_LIMB, r |-> (a.r + b.r) % BIG_LIMB]

\* the record after ACC_BASE values of temp, none of which overflows
BaseRecord(temp) ==
    [min_temp |-> temp, max_temp |-> temp, total |-> temp * ACC_BASE,
     count |-> ACC_BASE, name |-> Some(OSLO)]

InitAccumulate ==
    /\ file = 1
    /\ PipeOff
    /\ main = Off
    /\ shard = Off
    /\ \E temp \in {-999, 999} :
          probe = [pc |-> "absorb", data |-> BaseRecord(temp),
                   exact_sum |-> Big(temp * ACC_BASE), exact_count |-> ACC_BASE,
                   steps |-> 0]

\* v16.rs:115: add_temp on the record.  When the sum overflows, a build
\* without overflow checks wraps and a build with them panics.
Call_add_temp ==
    /\ probe.pc = "absorb"
    /\ probe.steps < MAX_ADDED
    /\ \E temp \in ACC_TEMPS :
          \/ probe' = [probe EXCEPT !.data = add_temp(@, temp, OSLO),
                                    !.exact_sum = BigAdd(@, Big(temp)),
                                    !.exact_count = @ + 1,
                                    !.steps = @ + 1]
          \/ /\ i32_overflows(probe.data.total, temp)
             /\ probe' = [probe EXCEPT !.pc = "panicked"]
    /\ UNCHANGED <<file, pc, empty_bufs, full_chunks, bufs, reader, workers, main, shard>>

\* v16.rs:173: merge_with a record of another thread
Call_merge_with ==
    /\ probe.pc = "absorb"
    /\ probe.steps < MAX_ADDED
    /\ \E temp \in {-999, 999} :
          LET other == BaseRecord(temp)
          IN  \/ probe' = [probe EXCEPT !.data = merge_with(@, other),
                                        !.exact_sum = BigAdd(@, Big(other.total)),
                                        !.exact_count = @ + other.count,
                                        !.steps = @ + 1]
              \/ /\ i32_overflows(probe.data.total, other.total)
                 /\ probe' = [probe EXCEPT !.pc = "panicked"]
    /\ UNCHANGED <<file, pc, empty_bufs, full_chunks, bufs, reader, workers, main, shard>>

NextAccumulate == Call_add_temp \/ Call_merge_with

SpecAccumulate == InitAccumulate /\ [][NextAccumulate]_vars

\* C16: for every input of the contract (up to 10^9 records, values in
\* [-999, 999] tenths, any distribution over stations) the sum of a record,
\* absorbed or merged, is the exact sum of the values and its count their
\* exact number; the i32 sum and the u32 count never overflow.
C16_ExactAccumulation ==
    probe.exact_count <= 10 ^ 9
        => /\ probe.pc # "panicked"
           /\ Big(probe.data.total) = probe.exact_sum
           /\ probe.data.count = probe.exact_count

\* the table of the records of a file that precede its first record of a
\* short name
BeforeShort(f) ==
    LET first == SetMin(ShortRecords(f))
        before == SubSeq(Files[f].records, 1, first - 1)
    IN  [i \in {IndexOfStation[before[k][1]].val : k \in DOMAIN before} |->
            LET names == {before[k][1] : k \in DOMAIN before}
                n == CHOOSE n \in names : IndexOfStation[n].val = i
            IN  [min_temp |-> SetMin({before[k][2] : k \in {k \in DOMAIN before : before[k][1] = n}}),
                 max_temp |-> SetMax({before[k][2] : k \in {k \in DOMAIN before : before[k][1] = n}}),
                 total |-> SumTemps(before, n),
                 count |-> Cardinality({k \in DOMAIN before : before[k][1] = n}),
                 name |-> Some(n)]]

C17_WitnessOneByte ==
    /\ file = 6
    /\ \E w \in Workers : pc[w] = "panicked"
    /\ main.pc = "panicked"

\* the tables of the pipelined run: those of the workers, those run has
\* collected, and the merged table
AllTables ==
    {workers[w].map : w \in Workers}
    \cup {main.maps[j] : j \in DOMAIN main.maps}
    \cup {main.merged_map}

\* the indices at which a table is looked at: those it has written and, of
\* those it has never written, the first and the last of the vector
Inspected(map) == (DOMAIN map) \cup {0, TABLE_SIZE - 1}

\* C18 as claimed: in every state every record of every table, the slots
\* that have never been written included, satisfies min <= max.
C18_MinLeMax_Claimed ==
    \A map \in AllTables :
        \A i \in Inspected(map) : Backing(map, i).min_temp <= Backing(map, i).max_temp

\* C18: in every state every record of every table that holds an observation
\* (count > 0) satisfies min <= max; a slot that holds none is as
\* StationData::new() made it: count 0, min = i32::MAX, max = i32::MIN.
C18_MinLeMax ==
    \A map \in AllTables :
        \A i \in Inspected(map) :
            LET data == Backing(map, i)
            IN  IF data.count > 0 THEN data.min_temp <= data.max_temp
                ELSE data = StationData_new /\ data.min_temp > data.max_temp

\* the merged table holds a record of several values with min < max
C18_Witness ==
    /\ main.pc = "done"
    /\ \E i \in DOMAIN main.merged_map :
          /\ main.merged_map[i].count > 1
          /\ main.merged_map[i].min_temp < main.merged_map[i].max_temp

\* C19: take returns None only in a state in which the collection of the
\* pool is empty and closed is set; consequently, in every state in which all
\* workers have terminated the ready side holds no chunk: no published chunk
\* is left unprocessed.  Files with a name shorter than three bytes, on which
\* absorbing is a fatal error (C17), are left aside.
C19_PoolDrain ==
    (Files[file].valid /\ ShortRecords(file) = {})
        => /\ \A w \in Workers :
                 (pc[w] = "take_closed" /\ full_chunks.closed /\ full_chunks.lock = w)
                     => full_chunks.inner = <<>>
           /\ (\A w \in Workers : Terminated(w)) => full_chunks.inner = <<>>


\* C20: sharded run on a file that satisfies the input contract, records
\* longer than 48 bytes included: every pass of the outer loop of
\* scan_file_segment either advances offset by at least one record or leaves
\* the loop.  A pass is about to advance when its line loop has stopped; it
\* then has consumed at least one record of the buffer (line_start > 0), or
\* the advance reaches end_pos.
C20_ScanPassAdvances ==
    Files[file].valid
        => \A k \in 1 .. MAX_SEGMENTS :
              (/\ k \in DOMAIN shard.scan
               /\ shard.scan[k].pc = "advance")
                  => \/ shard.scan[k].line_start > 0
                     \/ shard.scan[k].offset + shard.scan[k].line_start
                            >= shard.scan[k].end_pos

\* ------------------------------------------------- pipeline of any pool size

\* v16.rs:138-140: run fills empty_bufs with the buffers of the pool; here
\* the pool has any size from one buffer to NUM_BUFS
InitPoolSizes ==
    /\ file \in DOMAIN Files
    /\ pc = [t \in {READER} \cup Workers |-> IF t = READER THEN "loop" ELSE "take_lock"]
    /\ \E n \in 1 .. NUM_BUFS :
          /\ empty_bufs = [Pool_new EXCEPT !.inner = [b \in 1 .. n |-> b]]
          /\ bufs = [b \in 1 .. n |-> [i \in 1 .. BUF_SIZE |-> 0]]
    /\ full_chunks = Pool_new
    /\ reader = [offset |-> 0, buf |-> 0, len |-> 0]
    /\ workers = [w \in Workers |->
                    [chunk |-> None, offset |-> 0, map |-> CustomHashMap_new]]
    /\ main = [pc |-> "join", maps |-> <<>>, merged_map |-> CustomHashMap_new,
               output |-> None]
    /\ shard = Off
    /\ probe = Off

SpecPoolSizes == InitPoolSizes /\ [][NextPipe]_vars

\* no thread of the pipeline has failed
NoFailure ==
    /\ main.pc # "panicked"
    /\ \A t \in DOMAIN pc : pc[t] # "panicked"

\* the run is at rest: the scheduler can take no further step (a worker
\* inside its line loop and a main thread about to format always have one)
AtRest ==
    /\ \A w \in Workers : pc[w] # "line"
    /\ main.pc # "format"
    /\ ~ENABLED ScheduledPipe

\* C21: pipelined run on a file that satisfies the input contract, no thread
\* failed, any pool size from one buffer on: the reader is never left blocked
\* in take on the empty side (a reader that waits there waits on an empty
\* collection and is registered to be woken by the next put), and a run in
\* which has come to rest has the reader returned with the ready side
\* closed: reader and workers never wait for each other.
C21_ReaderProgress ==
    (Files[file].valid /\ NoFailure)
        => /\ pc[READER] = "parked"
                 => (empty_bufs.inner = <<>> /\ READER \in empty_bufs.waiters)
           /\ AtRest => (pc[READER] = "returned" /\ full_chunks.closed)

\* a pool of one buffer has carried a file of several buffers to its end
C21_Witness ==
    /\ Files[file].valid
    /\ NoFailure
    /\ Len(bufs) = 1
    /\ file_len > 2 * BUF_SIZE
    /\ pc[READER] = "returned"
    /\ full_chunks.closed

\* C22: the closed flag of the ready side is set only by a step of the
\* reader, taken when the reader's offset has reached file_len; once set it
\* stays set; no chunk is put on the ready side after it is set; the empty
\* side is never closed.
C22_OneWayClose ==
    /\ [](~empty_bufs.closed)
    /\ [](full_chunks.closed
             => (reader.offset >= file_len
                 /\ pc[READER] \in {"close_notify", "returned"}))
    /\ [][/\ full_chunks.closed => full_chunks'.closed
          /\ (~full_chunks.closed /\ full_chunks'.closed)
                => (/\ pc[READER] = "close_store"
                    /\ pc'[READER] = "close_notify"
                    /\ reader.offset >= file_len
                    /\ \A w \in Workers : pc'[w] = pc[w])
          /\ full_chunks.closed
                => Len(full_chunks'.inner) <= Len(full_chunks.inner)]_vars

\* the ready side is closed while it still holds a chunk
C22_Witness ==
    /\ full_chunks.closed
    /\ full_chunks.inner # <<>>
    /\ pc[READER] = "returned"

\* the chunk of len bytes in the buffer b ends with a record terminator
EndsRecord(b, len) == len >= 1 /\ bufs[b][len] = NL

\* C23: every chunk the reader publishes has a logical length of at least 1
\* and a record terminator as its last valid byte; it holds the bytes of the
\* file from a record boundary on; the chunk read next starts at the file
\* offset where the chunk before it ended, the first at 0, and when the
\* reader has returned the chunks have covered the file up to file_len.
C23_ChunkAlignment ==
    /\ [](pc[READER] \in {"put_lock", "put_push"}
             => LET start == reader.offset - reader.len
                IN  /\ EndsRecord(reader.buf, reader.len)
                    /\ start = 0 \/ FileBytes[file][start] = NL
                    /\ \A i \in 1 .. reader.len :
                          bufs[reader.buf][i] = FileBytes[file][start + i])
    /\ [](\A k \in DOMAIN full_chunks.inner :
             EndsRecord(full_chunks.inner[k].buf, full_chunks.inner[k].len))
    /\ [](pc[READER] = "returned" => reader.offset = file_len)
    /\ [][(pc[READER] = "read" /\ pc'[READER] = "put_lock")
             => reader'.offset - reader'.len = reader.offset]_vars

\* the reader is about to publish a chunk that does not start the file
C23_Witness ==
    /\ pc[READER] = "put_push"
    /\ reader.offset - reader.len > 0
    /\ reader.offset < file_len

\* the number of buffers on the empty side, on the ready side, and held by
\* the reader and by the workers
BuffersInUse ==
    Len(empty_bufs.inner) + Len(full_chunks.inner)
    + (IF reader.buf # 0 THEN 1 ELSE 0)
    + Cardinality({w \in Workers : is_some(workers[w].chunk)})

\* C24: in every state of a pipelined run in which no thread has failed, the
\* buffers on the empty side, the chunks on the ready side and the buffers
\* held by the reader and by the workers are NUM_BUFS together, and each of
\* the NUM_BUFS buffers made at startup still has its bytes: none is created
\* and none is dropped.
C24_BufferConservation ==
    NoFailure
        => /\ BuffersInUse = NUM_BUFS
           /\ DOMAIN bufs = 1 .. NUM_BUFS
           /\ \A b \in DOMAIN bufs : Len(bufs[b]) = BUF_SIZE

\* the reader fills a buffer while a worker reads a chunk and another chunk
\* is ready
C24_Witness ==
    /\ NoFailure
    /\ pc[READER] = "read"
    /\ \E w \in Workers : pc[w] = "line"
    /\ full_chunks.inner # <<>>

\* the length of the chunk of the file f that starts at the offset s: up to
\* the last terminator of the BUF_SIZE bytes from s on
ChunkLenAt(f, s) ==
    SetMax({i \in 1 .. Min2(BUF_SIZE, Len(FileBytes[f]) - s) : FileBytes[f][s + i] = NL}
           \cup {0})

FirstChunkLen(f) == ChunkLenAt(f, 0)

\* the offsets at which the chunks of the file f start, from s on
RECURSIVE ChunkStartsFrom(_, _)
ChunkStartsFrom(f, s) ==
    IF s >= Len(FileBytes[f]) \/ ChunkLenAt(f, s) = 0 THEN {}
    ELSE {s} \cup ChunkStartsFrom(f, s + ChunkLenAt(f, s))

\* no later chunk of the file f has the bytes of its first chunk
FirstChunkIsUnique(f) ==
    /\ FirstChunkLen(f) > 0
    /\ \A s \in ChunkStartsFrom(f, 0) \ {0} :
          SubSeq(FileBytes[f], s + 1, s + ChunkLenAt(f, s))
              # SubSeq(FileBytes[f], 1, FirstChunkLen(f))

\* the worker w holds the first chunk of the file
HoldsFirstChunk(w) ==
    /\ is_some(workers[w].chunk)
    /\ LET chunk == unwrap(workers[w].chunk)
       IN  /\ chunk.len = FirstChunkLen(file)
           /\ Slice(bufs[chunk.buf], 0, chunk.len)
                 = SubSeq(FileBytes[file], 1, chunk.len)

\* C25: a thread absorbs the records it absorbs in the order of the file,
\* the records of different chunks taken by the same worker included: a
\* worker that begins the first chunk of the file has absorbed no record of
\* a chunk published after it.
C25_PerThreadFileOrder ==
    \A w \in Workers :
        (/\ Files[file].valid
         /\ FirstChunkIsUnique(file)
         /\ pc[w] = "line"
         /\ workers[w].offset = 0
         /\ HoldsFirstChunk(w))
            => TableCount(workers[w].map) = 0

\* ------------------------------------------------- one record of a window

\* the bytes of a record with or without its separator
RecordText(name, tenths, separated) ==
    name \o (IF separated THEN <<SEMI>> ELSE <<>>) \o ValueText(tenths) \o <<NL>>

LINE_NAMES == {OSLO, ROME, HAMBURG}
LINE_TEMPS == {-35, 0, 13}

\* v16.rs:108-115 (v15.rs:99-106) on a window of one or two records, each
\* with or without its separator, and an empty table
InitLine ==
    /\ file = 1
    /\ PipeOff
    /\ main = Off
    /\ shard = Off
    /\ \E n1 \in LINE_NAMES, n2 \in LINE_NAMES, t1 \in LINE_TEMPS, t2 \in LINE_TEMPS,
          s1 \in BOOLEAN, s2 \in BOOLEAN, two \in BOOLEAN :
          probe = [pc |-> "call",
                   first_separated |-> s1,
                   line_slice |-> RecordText(n1, t1, s1)
                                    \o (IF two THEN RecordText(n2, t2, s2) ELSE <<>>),
                   newline |-> None, semicolon |-> None, absorbed |-> None]

\* the terminator is found (v16.rs:109), then the separator (v16.rs:110), and
\* the record is absorbed (v16.rs:112-115)
Call_process_line ==
    /\ probe.pc = "call"
    /\ LET newline == find_char(probe.line_slice, NL)
       IN  probe' = [probe EXCEPT
               !.newline = newline,
               !.semicolon = find_char(probe.line_slice, SEMI),
               !.absorbed = IF is_none(newline) THEN Some(Panic)
                            ELSE Some(process_line(CustomHashMap_new, probe.line_slice,
                                                   unwrap(newline))),
               !.pc = "returned"]
    /\ UNCHANGED <<file, pc, empty_bufs, full_chunks, bufs, reader, workers, main, shard>>

NextLine == Call_process_line

SpecLine == InitLine /\ [][NextLine]_vars

\* C26, as claimed: the separator is searched only inside the slice that
\* ends at the terminator just found: whenever a separator offset has been
\* found for a record it is strictly less than the terminator offset.
C26_BoundedSeparatorSearch_Claimed ==
    (probe.pc = "returned" /\ is_some(probe.semicolon))
        => unwrap(probe.semicolon) < unwrap(probe.newline)

\* C26: the separator is searched in the whole rest of the window; a record
\* is absorbed only if the separator offset is strictly less than the
\* terminator offset, and then the table holds one record under the name
\* before the separator; a record with no ';' is never paired with the ';'
\* of a following record: reading it is fatal.
C26_BoundedSeparatorSearch ==
    probe.pc = "returned"
        => LET absorbed == unwrap(probe.absorbed)
           IN  /\ absorbed.ok
                     => (/\ is_some(probe.semicolon)
                         /\ unwrap(probe.semicolon) < unwrap(probe.newline)
                         /\ TableCount(absorbed.val) = 1
                         /\ \A i \in DOMAIN absorbed.val :
                               absorbed.val[i].name
                                   = Some(Slice(probe.line_slice, 0, unwrap(probe.semicolon))))
               /\ ~probe.first_separated => ~absorbed.ok
               /\ probe.first_separated => absorbed.ok

\* a record with no ';' followed by a record with one has been read: the
\* separator found lies behind the terminator, and nothing was absorbed
C26_Witness ==
    /\ probe.pc = "returned"
    /\ ~probe.first_separated
    /\ is_some(probe.semicolon)
    /\ unwrap(probe.semicolon) > unwrap(probe.newline)
    /\ ~unwrap(probe.absorbed).ok

\* --------------------------------------------- names of one fingerprint

\* names of seven and of eight bytes that agree on their first three bytes,
\* their last three bytes and their length: 'Abc', a middle, 'def'
Colliding(middle) == <<65, 98, 99>> \o middle \o <<100, 101, 102>>
COLLIDING_NAMES ==
    {Colliding(<<120>>), Colliding(<<121>>), Colliding(<<122>>),
     Colliding(<<120, 121>>), Colliding(<<121, 120>>)}
COLLIDING_TEMPS == {-35, 13}
MAX_COLLIDING == 3

\* v16.rs:115 on an empty table, for up to MAX_COLLIDING records of two
\* names of one length
InitCollide ==
    /\ file = 1
    /\ PipeOff
    /\ main = Off
    /\ shard = Off
    /\ \E a \in COLLIDING_NAMES, b \in COLLIDING_NAMES, n \in 1 .. MAX_COLLIDING :
          /\ a # b
          /\ Len(a) = Len(b)
          /\ \E recs \in [1 .. n -> {a, b} \X COLLIDING_TEMPS] :
                probe = [pc |-> "absorb", names |-> <<a, b>>, recs |-> recs,
                         at |-> 1, map |-> CustomHashMap_new]

\* map.get_mut(name_slice).add_temp(temp, name_slice) for the next record
Call_absorb ==
    /\ probe.pc = "absorb"
    /\ probe.at <= Len(probe.recs)
    /\ LET rec == probe.recs[probe.at]
           map == absorb(probe.map, rec[1], rec[2])
       IN  probe' = [probe EXCEPT
               !.map = IF map.ok THEN map.val ELSE probe.map,
               !.pc = IF map.ok THEN "absorb" ELSE "panicked",
               !.at = @ + 1]
    /\ UNCHANGED <<file, pc, empty_bufs, full_chunks, bufs, reader, workers, main, shard>>

NextCollide == Call_absorb

SpecCollide == InitCollide /\ [][NextCollide]_vars

\* the sum of the values of the first n records of recs
RECURSIVE ValuesSum(_, _)
ValuesSum(recs, n) == IF n = 0 THEN 0 ELSE ValuesSum(recs, n - 1) + recs[n][2]

\* C27: two names of at least three bytes that agree on their first three
\* bytes, their last three bytes and their length have the same bucket;
\* after records of both have been absorbed the table holds one record,
\* whose count and sum include the records of both names, whose min and max
\* are over both, and whose name is the name absorbed first.
C27_NoCollisionResolution ==
    probe.pc = "absorb"
        => LET done == probe.at - 1
               values == {probe.recs[k][2] : k \in 1 .. done}
           IN  /\ bucket_index(probe.names[1]) = bucket_index(probe.names[2])
               /\ bucket_index(probe.names[1]).ok
               /\ done = 0 => probe.map = CustomHashMap_new
               /\ done > 0 =>
                     probe.map = (bucket_index(probe.names[1]).val :>
                                    [min_temp |-> SetMin(values),
                                     max_temp |-> SetMax(values),
                                     total |-> ValuesSum(probe.recs, done),
                                     count |-> done,
                                     name |-> Some(probe.recs[1][1])])

\* records of both names have been absorbed
C27_Witness ==
    /\ probe.pc = "absorb"
    /\ probe.at > Len(probe.recs)
    /\ \E j \in DOMAIN probe.recs : probe.recs[j][1] # probe.recs[1][1]
    /\ Cardinality(DOMAIN probe.map) = 1

\* ------------------------------------------------------- both topologies

\* a run of either topology: the pipeline of v16.rs or the static sharding
\* of v15.rs
InitTopologies == InitPipe \/ InitShard

NextTopologies ==
    \/ shard = Off /\ NextPipe
    \/ PipeOff /\ NextShard

SpecTopologies == InitTopologies /\ [][NextTopologies]_vars

\* the threads that fill a table, where each of them is, and its table
TableThreads == IF shard = Off THEN Workers ELSE DOMAIN shard.scan
ThreadPc == [j \in TableThreads |-> IF shard = Off THEN pc[j] ELSE shard.scan[j].pc]
ThreadMap ==
    [j \in TableThreads |-> IF shard = Off THEN workers[j].map ELSE shard.scan[j].map]
ThreadCount == IF shard = Off THEN NUM_WORKERS ELSE shard.num_segments

\* C28: in both topologies a table is changed only by a step of the thread
\* that created it, a step that changes no other table; the main thread has
\* the table of a thread only after that thread has returned, and it is the
\* table the thread has returned; merging begins only after every thread has
\* been joined.
C28_JoinBarrier ==
    /\ [](\A j \in DOMAIN main.maps :
             ThreadPc[j] = "returned" /\ main.maps[j] = ThreadMap[j])
    /\ [](main.pc \in {"merge", "format", "done"}
             => (/\ Len(main.maps) = ThreadCount
                 /\ \A j \in TableThreads : ThreadPc[j] = "returned"))
    /\ [][\A j \in TableThreads \cap TableThreads' :
             ThreadMap'[j] # ThreadMap[j]
                 => (/\ ThreadPc[j] = "line"
                     /\ main' = main
                     /\ \A i \in TableThreads \ {j} : ThreadMap'[i] = ThreadMap[i])]_vars

\* the pipeline begins to merge the tables of workers that have both
\* absorbed records
C28_Witness ==
    /\ shard = Off
    /\ main.pc = "merge"
    /\ \A w \in Workers : TableCount(workers[w].map) > 0

\* the static sharding begins to merge the tables of several threads
C28_WitnessSharded ==
    /\ PipeOff
    /\ main.pc = "merge"
    /\ Len(main.maps) > 1

\* ------------------------------------------------ absorbing into a table

FRAME_NAMES == {OSLO, ROME, BERLIN}

\* a table that holds the record of ACC_BASE values of Oslo and one record
\* of Rome
FrameTable(temp) ==
    (IndexOfStation[OSLO].val :> BaseRecord(temp))
    @@ (IndexOfStation[ROME].val :> add_temp(StationData_new, 13, ROME))

\* v16.rs:115 on the table of one thread, next to the table of another
InitFrame ==
    /\ file = 1
    /\ PipeOff
    /\ main = Off
    /\ shard = Off
    /\ \E temp \in {-999, 999} :
          probe = [pc |-> "absorb", map |-> FrameTable(temp), before |-> FrameTable(temp),
                   other_map |-> FrameTable(-temp), other_before |-> FrameTable(-temp),
                   last |-> None, steps |-> 0]

\* map.get_mut(name_slice).add_temp(temp, name_slice).  When the sum
\* overflows, a build without overflow checks wraps and a build with them
\* panics.
Call_get_mut_add_temp ==
    /\ probe.pc = "absorb"
    /\ probe.steps < MAX_ADDED
    /\ \E name \in FRAME_NAMES, temp \in ACC_TEMPS :
          LET index == get_mut_index(name).val
          IN  \/ probe' = [probe EXCEPT
                      !.map = absorb(probe.map, name, temp).val,
                      !.before = probe.map,
                      !.other_before = probe.other_map,
                      !.last = Some(<<name, temp>>),
                      !.steps = @ + 1]
              \/ /\ i32_overflows(Backing(probe.map, index).total, temp)
                 /\ probe' = [probe EXCEPT !.pc = "panicked",
                                           !.before = probe.map,
                                           !.other_before = probe.other_map,
                                           !.last = Some(<<name, temp>>)]
    /\ UNCHANGED <<file, pc, empty_bufs, full_chunks, bufs, reader, workers, main, shard>>

NextFrame == Call_get_mut_add_temp

SpecFrame == InitFrame /\ [][NextFrame]_vars

\* C29: absorbing one (name, value) pair changes exactly one record of the
\* table, the one at the bucket index of name: its count grows by 1, its sum
\* by value, its min and max move only toward value; every other record of
\* the table and the table of every other thread are unchanged.
C29_AbsorbFrame ==
    is_some(probe.last)
        => LET name == unwrap(probe.last)[1]
               value == unwrap(probe.last)[2]
               index == IndexOfStation[name].val
               old == Backing(probe.before, index)
               new == Backing(probe.map, index)
           IN  /\ probe.pc # "panicked"
               /\ new.count = old.count + 1
               /\ ~i32_overflows(old.total, value)
               /\ new.total = old.total + value
               /\ new.min_temp = Min2(old.min_temp, value)
               /\ new.max_temp = Max2(old.max_temp, value)
               /\ \A i \in (DOMAIN probe.map \cup DOMAIN probe.before) \ {index} :
                     Backing(probe.map, i) = Backing(probe.before, i)
               /\ probe.other_map = probe.other_before

\* every record of the table that has absorbed a value has its name
Named(map) == \A i \in DOMAIN map : map[i].count > 0 => is_some(map[i].name)

\* C30: every record with count > 0 of a per-thread table and of the merged
\* table has its name set, whatever records of the merged tables are empty,
\* so that format_output does not fail on a record it renders: the run
\* goes from merging to its output without a panic.
C30_NamePresence ==
    /\ \A j \in DOMAIN main.maps : Named(main.maps[j])
    /\ Named(main.merged_map)
    /\ main.pc # "panicked"
    /\ main.pc = "done" => is_some(main.output)

\* three tables have been merged and rendered, where a station is in the
\* first and the last table and not in the one between them
C30_Witness ==
    /\ main.pc = "done"
    /\ Len(main.maps) > 2
    /\ \E i \in DOMAIN main.merged_map :
          /\ Backing(main.maps[1], i).count > 0
          /\ Backing(main.maps[2], i).count = 0
          /\ Backing(main.maps[Len(main.maps)], i).count > 0
          /\ is_some(main.merged_map[i].name)
=============================================================================
